---- MODULE Spec2Model ----
(***************************************************************************)
(* Model of ipydebug/core.py: the process-wide list active_breakpoints,    *)
(* the process-wide dict func_breakpoints, Breakpoint objects and their    *)
(* break_here method, and the func_breakpoint decorator with the inner     *)
(* closures it returns.  The program is single threaded: every action is   *)
(* one whole call of a function or method of the module.                   *)
(***************************************************************************)
EXTENDS Integers, Sequences, FiniteSets, TLC

VARIABLES active_breakpoints, func_breakpoints, bps, decos, wrapped,
          exited, last, qualified, preActive, built, warnings

vars == <<active_breakpoints, func_breakpoints, bps, decos, wrapped,
          exited, last, qualified, preActive, built, warnings>>

----------------------------------------------------------------------------
(* Bounds of the model *)

\* Largest finite max_usage a Breakpoint is constructed with.
MaxUsage == 2
\* Length the list active_breakpoints may reach.
MaxActive == 2
\* Number of func_breakpoint decorator objects created during a run.
MaxDecos == 2
\* Number of wrapped callables (inner closures) created during a run.
MaxWrapped == 2
\* Number of qualifying break_here calls made on one Breakpoint: enough to
\* call past the largest quota.
MaxCalls == MaxUsage + 1

----------------------------------------------------------------------------
(* Input domains *)

Tags == {"a", "b"}

\* Tag lists handed to activate_breakpoint and to Breakpoint(tags=...).
TagLists == {<<>>, <<"a">>, <<"b">>, <<"a", "b">>}

\* activate_tags is a bool or a list.
ActivateTagsArgs ==
    {[isbool |-> TRUE, val |-> v, list |-> <<>>] : v \in BOOLEAN}
    \cup {[isbool |-> FALSE, val |-> FALSE, list |-> l] : l \in TagLists}

\* max_usage is None or an int.
MaxUsageArgs ==
    {[isNone |-> TRUE, n |-> 0]}
    \cup {[isNone |-> FALSE, n |-> k] : k \in 0..MaxUsage}

\* log is None, a str or a function of locals().
LogArgs == {"none", "str", "func"}

\* The Breakpoint objects that user code constructs itself.
Sites == {"bp"}

\* The arguments func_breakpoint(...) decorators are created with: a
\* breakpoint of one use that activates its own tag, and exits or not.
DecoratorArgs ==
    [tags : {<<"a">>}, at : {[isbool |-> TRUE, val |-> TRUE, list |-> <<>>]},
     activate : {FALSE}, max_usage : {[isNone |-> FALSE, n |-> 1]},
     exit : BOOLEAN, log : {"none"}]

\* The functions that get decorated: two distinct functions declared with the
\* same name.
Funcs == {[id |-> 1, name |-> "f"], [id |-> 2, name |-> "f"]}

Range(s) == {s[i] : i \in DOMAIN s}

----------------------------------------------------------------------------
(* Python truthiness of the activate_tags argument: `if activate_tags:` *)
Truthy(at) == IF at.isbool THEN at.val ELSE Len(at.list) > 0

(* Breakpoint.__init__, lines 126-130: the list handed to activate_breakpoint *)
ActivatedIgnoringList(tags, at) == IF Truthy(at) THEN tags ELSE <<>>

ActivatedByInit(tags, at) ==
    IF Truthy(at)
    THEN IF at.isbool THEN tags ELSE at.list
    ELSE <<>>

(* activate_breakpoint: active_breakpoints.extend(tags) *)
ExtendReplaces(list, tags) == tags

Extend(list, tags) == list \o tags

(* Breakpoint.__init__, lines 131-137: the fields of the new object *)
NewBreakpoint(tags, activate, max_usage, exit, log) ==
    [breaks |-> 0, tags |-> tags, active |-> activate,
     max_usage |-> max_usage, exit |-> exit, log |-> log]

----------------------------------------------------------------------------
(* Breakpoint.break_here, line 165: the first conjunct of the condition *)
ShouldTriggerAllTags(bp, force, active) ==
    bp.active \/ force \/ \A i \in DOMAIN bp.tags : bp.tags[i] \in Range(active)

ShouldTriggerNoForce(bp, force, active) ==
    bp.active \/ \E i \in DOMAIN bp.tags : bp.tags[i] \in Range(active)

ShouldTriggerNoTags(bp, force, active) == bp.active \/ force

ShouldTrigger(bp, force, active) ==
    bp.active \/ force \/ \E i \in DOMAIN bp.tags : bp.tags[i] \in Range(active)

(* Breakpoint.break_here, line 166: the second conjunct of the condition *)
QuotaOkInclusive(bp) == bp.max_usage.isNone \/ bp.breaks <= bp.max_usage.n

QuotaOkNoneAsZero(bp) == bp.breaks < bp.max_usage.n

QuotaOk(bp) == bp.max_usage.isNone \/ bp.breaks < bp.max_usage.n

(* Breakpoint.break_here, line 167: breaks after the call; the increment
   precedes the attempt to import IPython *)
BreaksAfterOnlyOnEmbed(bp, trig, ipython) ==
    IF trig /\ ipython THEN bp.breaks + 1 ELSE bp.breaks

BreaksAfter(bp, trig, ipython) == IF trig THEN bp.breaks + 1 ELSE bp.breaks

(* Breakpoint.break_here, lines 172-174: the value of self.breaks when the
   console is attempted, after line 167 *)
BreaksAtConsoleStale(bp, trig) == bp.breaks

BreaksAtConsole(bp, trig) == IF trig THEN bp.breaks + 1 ELSE bp.breaks

(* Breakpoint.break_here, lines 168-171: the expiry warning *)
WarnsWhenExpired(bp, trig, after) == ~bp.max_usage.isNone /\ after = bp.max_usage.n

Warns(bp, trig, after) == trig /\ ~bp.max_usage.isNone /\ after = bp.max_usage.n

(* Breakpoint.break_here, lines 158-163: one logging.debug call when log is set *)
LogsOnlyStr(bp) == bp.log = "str"

Logs(bp) == bp.log # "none"

(* Breakpoint.break_here, lines 172-174: the console is reached only in the
   triggering branch; IPython.embed() runs when the import succeeds *)
Console(trig, ipython) ==
    IF ~trig THEN "unreached" ELSE IF ipython THEN "entered" ELSE "unavailable"

(* Breakpoint.break_here, lines 175-176: ImportError becomes an Exception *)
Raises(trig, ipython) == trig /\ ~ipython

(* Breakpoint.break_here, lines 177-178: sys.exit(), reached unless line 176 raised *)
ExitsOnlyWhenTriggered(bp, exit, trig, raised) == trig /\ ~raised /\ (bp.exit \/ exit)

ExitsEvenWhenRaised(bp, exit, trig, raised) == bp.exit \/ exit

Exits(bp, exit, trig, raised) == ~raised /\ (bp.exit \/ exit)

NoArg == [isbool |-> TRUE, val |-> FALSE, list |-> <<>>]

(* The outcome of one call bps[b].break_here(force, exit): lines 154-178.
   ipython tells whether `import IPython` succeeds. *)
BreakHereResult(op, b, w, force, exit, ipython) ==
    LET bp == bps[b]
        should == ShouldTrigger(bp, force, active_breakpoints)
        quota == QuotaOk(bp)
        trig == should /\ quota
        after == BreaksAfter(bp, trig, ipython)
        raised == Raises(trig, ipython)
    IN [op |-> op, bp |-> b, w |-> w, force |-> force, exit |-> exit,
        qualifying |-> should, before |-> bp.breaks, triggered |-> trig,
        warned |-> Warns(bp, trig, after), logged |-> Logs(bp),
        console |-> Console(trig, ipython), seen |-> BreaksAtConsole(bp, trig),
        raised |-> raised,
        exits |-> Exits(bp, exit, trig, raised),
        called |-> FALSE, at |-> NoArg]

(* The record of an operation that is no break_here call *)
NoCall(op, b, w, at) ==
    [op |-> op, bp |-> b, w |-> w, force |-> FALSE, exit |-> FALSE,
     qualifying |-> FALSE, before |-> 0, triggered |-> FALSE,
     warned |-> FALSE, logged |-> FALSE, console |-> "unreached",
     seen |-> 0, raised |-> FALSE,
     exits |-> FALSE, called |-> FALSE, at |-> at]

----------------------------------------------------------------------------
Init ==
    /\ active_breakpoints = <<>>
    /\ func_breakpoints = <<>>
    /\ bps = <<>>
    /\ decos = <<>>
    /\ wrapped = <<>>
    /\ exited = FALSE
    /\ last = NoCall("start", 0, 0, NoArg)
    /\ qualified = <<>>
    /\ preActive = <<>>
    /\ built = <<>>
    /\ warnings = <<>>

(* activate_breakpoint(tags) *)
Activate ==
    \E tags \in TagLists :
        /\ ~exited
        /\ Len(active_breakpoints) + Len(tags) <= MaxActive
        /\ active_breakpoints' = Extend(active_breakpoints, tags)
        /\ last' = NoCall("activate", 0, 0, NoArg)
        /\ UNCHANGED <<func_breakpoints, bps, decos, wrapped, exited, qualified, preActive,
                       built, warnings>>

(* Breakpoint.__init__: the new object joins the heap, its tags or the
   explicit list are activated *)
Constructed(tags, at, activate, max_usage, exit, log) ==
    /\ Len(active_breakpoints) + Len(ActivatedByInit(tags, at)) <= MaxActive
    /\ active_breakpoints' = Extend(active_breakpoints, ActivatedByInit(tags, at))
    /\ bps' = Append(bps, NewBreakpoint(tags, activate, max_usage, exit, log))
    /\ qualified' = Append(qualified, 0)
    /\ preActive' = Append(preActive, Range(active_breakpoints))
    /\ built' = Append(built, Range(active_breakpoints'))
    /\ warnings' = Append(warnings, 0)

(* Breakpoint(tags, activate_tags, activate, max_usage, exit, log) in user code *)
Construct ==
    \E tags \in TagLists, at \in ActivateTagsArgs, activate \in BOOLEAN,
       max_usage \in MaxUsageArgs, exit \in BOOLEAN, log \in LogArgs :
        /\ ~exited
        /\ Len(bps) < Cardinality(Sites)
        /\ Constructed(tags, at, activate, max_usage, exit, log)
        /\ last' = NoCall("construct", Len(bps) + 1, 0, at)
        /\ UNCHANGED <<func_breakpoints, decos, wrapped, exited>>

(* The state a call bps[b].break_here(...) with outcome r leaves *)
Called(b, r, ipython) ==
    /\ bps' = [bps EXCEPT ![b].breaks = BreaksAfter(bps[b], r.triggered, ipython)]
    /\ qualified' = [qualified EXCEPT ![b] = IF r.qualifying THEN @ + 1 ELSE @]
    /\ warnings' = [warnings EXCEPT ![b] = IF r.warned THEN @ + 1 ELSE @]
    /\ exited' = r.exits

(* bp.break_here(force, exit) in user code *)
BreakHere ==
    \E b \in DOMAIN bps, force \in BOOLEAN, exit \in BOOLEAN, ipython \in BOOLEAN :
        LET r == BreakHereResult("break_here", b, 0, force, exit, ipython) IN
        /\ ~exited
        /\ qualified[b] < MaxCalls
        /\ Called(b, r, ipython)
        /\ last' = r
        /\ UNCHANGED <<active_breakpoints, func_breakpoints, decos, wrapped, preActive, built>>

(* func_breakpoint.__init__: lines 48-61; the attribute breakpoint
   is not set yet (0) *)
NewDecorator ==
    \E args \in DecoratorArgs :
        /\ ~exited
        /\ Len(decos) < MaxDecos
        /\ decos' = Append(decos, [args |-> args, breakpoint |-> 0])
        /\ last' = NoCall("decorator", 0, 0, NoArg)
        /\ UNCHANGED <<active_breakpoints, func_breakpoints, bps, wrapped, exited,
                       qualified, preActive, built, warnings>>

(* The name of the closure when line 76 looks it up *)
InnerName == "inner"

(* decorator(func), func_breakpoint.__call__: lines 62-82.  The lookup of
   line 76 happens here, with the closure's own name; nothing writes
   func_breakpoints. *)
Wrap ==
    \E d \in DOMAIN decos, f \in Funcs :
        LET a == decos[d].args IN
        /\ ~exited
        /\ Len(wrapped) < MaxWrapped
        /\ IF InnerName \in DOMAIN func_breakpoints
           THEN /\ decos' = [decos EXCEPT ![d].breakpoint = func_breakpoints[InnerName]]
                /\ last' = NoCall("wrap", func_breakpoints[InnerName], Len(wrapped) + 1, a.at)
                /\ UNCHANGED <<active_breakpoints, bps, qualified, preActive, built, warnings>>
           ELSE /\ Constructed(a.tags, a.at, a.activate, a.max_usage, a.exit, a.log)
                /\ decos' = [decos EXCEPT ![d].breakpoint = Len(bps) + 1]
                /\ last' = NoCall("wrap", Len(bps) + 1, Len(wrapped) + 1, a.at)
        /\ wrapped' = Append(wrapped, [self |-> d, func |-> f.id, name |-> f.name,
                                       made |-> decos'[d].breakpoint])
        /\ UNCHANGED <<func_breakpoints, exited>>

(* inner, line 73: self.breakpoint is read when the wrapped function is
   called, so it is the Breakpoint the decorator holds then *)
BreakpointAtWrap(w) == wrapped[w].made

BreakpointOf(w) == decos[wrapped[w].self].breakpoint

(* inner, line 74: func is called when break_here returned *)
CallsThroughAlways(raised, exits) == TRUE

CallsThrough(raised, exits) == ~raised /\ ~exits

(* A call of a wrapped function, the closure inner: lines 67-74 *)
Invoke ==
    \E w \in DOMAIN wrapped, ipython \in BOOLEAN :
        LET b == BreakpointOf(w)
            r == BreakHereResult("invoke", b, w, FALSE, FALSE, ipython) IN
        /\ ~exited
        /\ qualified[b] < MaxCalls
        /\ Called(b, r, ipython)
        /\ last' = [r EXCEPT !.called = CallsThrough(r.raised, r.exits)]
        /\ UNCHANGED <<active_breakpoints, func_breakpoints, decos, wrapped, preActive, built>>

----------------------------------------------------------------------------
(* Breakpoints built and called by user code *)
Next == Activate \/ Construct \/ BreakHere

Spec == Init /\ [][Next]_vars

(* Breakpoints built by func_breakpoint decorators and called through the
   wrapped functions *)
WrapNext == Activate \/ NewDecorator \/ Wrap \/ Invoke

WrapSpec == Init /\ [][WrapNext]_vars
----------------------------------------------------------------------------
(* Properties *)

Finite(b) == ~bps[b].max_usage.isNone

QuotaN(b) == bps[b].max_usage.n

IsCall == last.op = "break_here"

Min(a, b) == IF a < b THEN a ELSE b

\* C1: a Breakpoint with finite max_usage = N has fired on exactly the first
\* N qualifying break_here calls: after q qualifying calls breaks is min(q, N),
\* and a call triggers iff it qualifies and is one of the first N such calls.
C1_FiresOnFirstN ==
    /\ \A b \in DOMAIN bps :
         Finite(b) => bps[b].breaks = Min(qualified[b], QuotaN(b))
    /\ (IsCall /\ Finite(last.bp)) =>
         /\ last.triggered <=> (last.qualifying /\ qualified[last.bp] <= QuotaN(last.bp))
         /\ last.triggered => bps[last.bp].breaks = last.before + 1
         /\ ~last.triggered => bps[last.bp].breaks = last.before

\* The scenario max_usage = 2: the third qualifying call does not trigger.
C1_Witness ==
    /\ IsCall /\ Finite(last.bp) /\ QuotaN(last.bp) = MaxUsage
    /\ last.qualifying /\ ~last.triggered
    /\ qualified[last.bp] = MaxUsage + 1 /\ bps[last.bp].breaks = MaxUsage

\* C2 (as claimed): two wrapped callables around distinct functions of the
\* same declared name fire one and the same Breakpoint.
C2_SameNameSharesBreakpoint ==
    \A w1 \in DOMAIN wrapped, w2 \in DOMAIN wrapped :
        (wrapped[w1].name = wrapped[w2].name /\ wrapped[w1].func # wrapped[w2].func)
        => decos[wrapped[w1].self].breakpoint = decos[wrapped[w2].self].breakpoint

\* C3 (as claimed): once a wrapped function named f has been invoked,
\* func_breakpoints maps f to the Breakpoint that invocation used.
C3_RegisteredAfterFirstCall ==
    last.op = "invoke" =>
        /\ wrapped[last.w].name \in DOMAIN func_breakpoints
        /\ func_breakpoints[wrapped[last.w].name] = last.bp

\* C4: a Breakpoint constructed after a tag of its tags was activated
\* triggers on every unforced break_here call made while its quota is not
\* exhausted, with activate = False.
C4_ActivatedTagTriggers ==
    (/\ IsCall /\ ~last.force /\ ~bps[last.bp].active
     /\ Range(bps[last.bp].tags) \cap preActive[last.bp] # {}
     /\ (~Finite(last.bp) \/ last.before < QuotaN(last.bp)))
    => (last.triggered /\ bps[last.bp].breaks = last.before + 1)

C4_Witness ==
    /\ IsCall /\ ~last.force /\ ~bps[last.bp].active
    /\ Range(bps[last.bp].tags) \cap preActive[last.bp] # {}
    /\ ~(Range(bps[last.bp].tags) \subseteq Range(active_breakpoints))
    /\ last.triggered

\* C5: break_here(force=True) triggers iff the quota allows it, whatever the
\* tags, the active tags and the active flag; on an expired Breakpoint it
\* does not trigger and leaves breaks unchanged.
C5_ForceSubjectToQuota ==
    (IsCall /\ last.force) =>
        /\ last.triggered <=> (~Finite(last.bp) \/ last.before < QuotaN(last.bp))
        /\ last.triggered => bps[last.bp].breaks = last.before + 1
        /\ ~last.triggered => bps[last.bp].breaks = last.before

\* A forced call on an expired Breakpoint that only force can trigger.
C5_Witness ==
    /\ IsCall /\ last.force /\ ~last.triggered
    /\ ~bps[last.bp].active /\ bps[last.bp].tags = <<>>
    /\ Finite(last.bp) /\ QuotaN(last.bp) = MaxUsage
    /\ last.before = MaxUsage /\ bps[last.bp].breaks = MaxUsage

\* C6: with max_usage None every qualifying break_here call triggers and
\* adds one to breaks, however many calls were made before.
C6_UnlimitedAlwaysFires ==
    /\ \A b \in DOMAIN bps : ~Finite(b) => bps[b].breaks = qualified[b]
    /\ (IsCall /\ ~Finite(last.bp) /\ last.qualifying) =>
         (last.triggered /\ bps[last.bp].breaks = last.before + 1)

C6_Witness ==
    /\ IsCall /\ ~Finite(last.bp) /\ last.triggered
    /\ last.before = MaxUsage /\ bps[last.bp].breaks = MaxUsage + 1

\* C7 (as claimed, from the constructor's docstring): a Breakpoint built with
\* max_usage == 0 triggers on every qualifying break_here call.
C7_ZeroMeansAlwaysActive ==
    (IsCall /\ Finite(last.bp) /\ QuotaN(last.bp) = 0 /\ last.qualifying)
    => last.triggered

\* C8 (as claimed): when the console is unavailable on a triggering call,
\* the call raises and breaks is what it was before the call.
C8_FailedCallKeepsCount ==
    (IsCall /\ last.console = "unavailable") =>
        (last.raised /\ bps[last.bp].breaks = last.before)

\* C8 (amended): when the console is unavailable on a triggering call, the
\* call raises and breaks is one more than before the call.
C8_FailedCallCounts ==
    (IsCall /\ last.console = "unavailable") =>
        (last.raised /\ last.triggered /\ bps[last.bp].breaks = last.before + 1)

C8_Witness ==
    /\ IsCall /\ last.console = "unavailable" /\ last.raised
    /\ last.before = 1 /\ bps[last.bp].breaks = 2

\* C9 (as claimed): a break_here call terminates the process iff self.exit
\* or exit is true, whether or not it triggered.
C9_ExitWheneverFlagged ==
    IsCall => (exited <=> (bps[last.bp].exit \/ last.exit))

\* C9 (amended): a break_here call terminates the process iff self.exit or
\* exit is true and the call did not raise for want of the console, whether
\* or not it triggered.
C9_ExitUnlessRaised ==
    IsCall => (exited <=> ((bps[last.bp].exit \/ last.exit) /\ ~last.raised))

\* An exiting call that did not trigger: expired, and not qualifying either.
C9_Witness ==
    /\ IsCall /\ exited /\ ~last.triggered /\ ~last.qualifying
    /\ Finite(last.bp) /\ bps[last.bp].breaks = QuotaN(last.bp) /\ QuotaN(last.bp) > 0

\* C10: right after Breakpoint(...) the active tags are those active before
\* plus: the tags of `tags` when activate_tags is True, the tags of the list
\* when activate_tags is a list, none when activate_tags is False.
C10_ConstructionActivates ==
    last.op = "construct" =>
        LET tags == Range(bps[last.bp].tags)
            before == preActive[last.bp]
            now == Range(active_breakpoints)
        IN /\ (last.at.isbool /\ last.at.val) => (tags \subseteq now /\ now = before \cup tags)
           /\ ~last.at.isbool => now = before \cup Range(last.at.list)
           /\ (last.at.isbool /\ ~last.at.val) => now = before

\* tags = ["a"] built with activate_tags = ["b"]: b is active, a is not.
C10_Witness ==
    /\ last.op = "construct" /\ ~last.at.isbool /\ last.at.list = <<"b">>
    /\ bps[last.bp].tags = <<"a">>
    /\ Range(active_breakpoints) = {"b"}

\* C11: breaks never exceeds a finite max_usage, whatever constructions,
\* activations and break_here calls were made.
C11_CountWithinQuota ==
    \A b \in DOMAIN bps : Finite(b) => bps[b].breaks <= QuotaN(b)

\* A Breakpoint at its quota after one more qualifying call than the quota.
C11_Witness ==
    \E b \in DOMAIN bps :
        /\ Finite(b) /\ QuotaN(b) = MaxUsage /\ bps[b].breaks = MaxUsage
        /\ qualified[b] = MaxCalls

\* C12 (as claimed): wrapping a function constructs no Breakpoint and leaves
\* active_breakpoints as it was.
C12_WrapConstructsNothing ==
    [][last'.op = "wrap" =>
         (bps' = bps /\ active_breakpoints' = active_breakpoints)]_vars

\* C13: a call of a wrapped function runs break_here of its Breakpoint and
\* calls the original function iff break_here returned: not when it raised,
\* not when it ended the process.
C13_CallsThroughIffReturned ==
    last.op = "invoke" =>
        /\ last.bp = decos[wrapped[last.w].self].breakpoint
        /\ last.called <=> (~last.raised /\ ~exited)

\* A call whose break_here triggered and ended the process.
C13_Witness ==
    /\ last.op = "invoke" /\ last.triggered /\ last.console = "entered"
    /\ exited /\ ~last.called

\* C14: a break_here call warns iff it triggers and brings breaks to a finite
\* max_usage; a Breakpoint warns at most once, and never with max_usage None.
C14_WarnsOnNthFiring ==
    /\ IsCall =>
         (last.warned <=>
            (last.triggered /\ Finite(last.bp)
             /\ bps[last.bp].breaks = QuotaN(last.bp)))
    /\ \A b \in DOMAIN bps :
         /\ warnings[b] <= 1
         /\ warnings[b] = 1 <=> (Finite(b) /\ QuotaN(b) > 0 /\ bps[b].breaks = QuotaN(b))

\* The second firing of a max_usage = 2 Breakpoint warns.
C14_Witness ==
    /\ IsCall /\ last.warned /\ last.before = MaxUsage - 1
    /\ QuotaN(last.bp) = MaxUsage /\ warnings[last.bp] = 1

IsPrefix(s, t) == Len(s) <= Len(t) /\ \A i \in DOMAIN s : t[i] = s[i]

\* C16: every step leaves the entries of active_breakpoints in place and at
\* most appends to them, so an active tag stays active.
C16_ActiveOnlyGrows ==
    [][IsPrefix(active_breakpoints, active_breakpoints')
       /\ Range(active_breakpoints) \subseteq Range(active_breakpoints')]_vars

\* An activation of a tag that was active already left a duplicate entry.
C16_Witness ==
    /\ last.op = "activate"
    /\ Len(active_breakpoints) = 2
    /\ active_breakpoints[1] = active_breakpoints[2]

\* C17: in a triggering call breaks is incremented before the warning, the
\* console and the exit check: the console of the k-th firing sees breaks =
\* k, a failed console attempt leaves the increment and skips the exit, and
\* the exit check follows a console that returned.
C17_IncrementWarnConsoleExit ==
    (IsCall /\ last.triggered) =>
        /\ last.console # "unreached"
        /\ last.seen = last.before + 1
        /\ bps[last.bp].breaks = last.seen
        /\ (Finite(last.bp) /\ last.seen = QuotaN(last.bp)) => last.warned
        /\ last.console = "unavailable" => (last.raised /\ ~exited)
        /\ last.console = "entered" => (exited <=> (bps[last.bp].exit \/ last.exit))

\* The second firing: warned, console entered with breaks = 2, then exit.
C17_Witness ==
    /\ IsCall /\ last.triggered /\ last.console = "entered"
    /\ last.seen = MaxUsage /\ last.warned /\ exited

\* C18: a Breakpoint none of whose tags was active when its construction
\* ended, with activate = False, qualifies on an unforced call iff one of its
\* tags is active at the call, and then triggers if the quota allows.
C18_ReadsRegistryAtCall ==
    (/\ IsCall /\ ~last.force /\ ~bps[last.bp].active
     /\ Range(bps[last.bp].tags) \cap built[last.bp] = {})
    => /\ last.qualifying <=>
            (Range(bps[last.bp].tags) \cap Range(active_breakpoints) # {})
       /\ last.triggered <=>
            (last.qualifying /\ (~Finite(last.bp) \/ last.before < QuotaN(last.bp)))

\* The tag was activated after the construction and the call triggered.
C18_Witness ==
    /\ IsCall /\ ~last.force /\ ~bps[last.bp].active
    /\ bps[last.bp].tags # <<>>
    /\ Range(bps[last.bp].tags) \cap built[last.bp] = {}
    /\ last.triggered

\* The Breakpoint a decorator holds is the one made at its latest application.
LatestOf(d) ==
    LET ws == {w \in DOMAIN wrapped : wrapped[w].self = d}
    IN IF ws = {} THEN 0
       ELSE wrapped[CHOOSE w \in ws : \A v \in ws : v <= w].made

\* C19: every wrapped function of a decorator fires the Breakpoint made at
\* the decorator's latest application, and a Breakpoint no decorator holds
\* any more never changes.
C19_LatestBreakpointIsFired ==
    /\ [](\A d \in DOMAIN decos : decos[d].breakpoint = LatestOf(d))
    /\ [][/\ last'.op = "invoke" =>
               last'.bp = decos[wrapped[last'.w].self].breakpoint
          /\ \A b \in DOMAIN bps :
               (\A d \in DOMAIN decos : decos[d].breakpoint # b) => bps'[b] = bps[b]
         ]_vars

\* The first wrapped function of a decorator applied twice fired the second
\* Breakpoint.
C19_Witness ==
    /\ last.op = "invoke" /\ last.triggered
    /\ wrapped[last.w].made # last.bp
    /\ bps[last.bp].breaks = 1

\* C20: a break_here call that raises for want of the console does not end
\* the process, whatever self.exit and exit are.
C20_RaiseSkipsExit ==
    (IsCall /\ last.raised) => (last.console = "unavailable" /\ ~exited)

C20_Witness ==
    /\ IsCall /\ last.raised /\ ~exited
    /\ bps[last.bp].exit /\ last.exit
====
